---- MODULE Spec2Model ----
(***************************************************************************)
(* SEO query analyzer: SEOScorecardAnalyzer (utils/seo_analyzer.py) and    *)
(* ContentExtractor (utils/content_extractor.py).                          *)
(*                                                                         *)
(* Text is a sequence of one-character strings.  A cell of a data frame,   *)
(* or any value handed to clean_text, is a tagged value                    *)
(*   [kind, s, n]  with kind in  "str" | "nan" | "int" | "none" | "other"  *)
(* where "nan" is the float NaN pandas stores for an absent CSV cell,      *)
(* "none" is Python's None and "other" is a non-scalar object.             *)
(***************************************************************************)
EXTENDS Integers, Sequences, FiniteSets, TLC

\* ------------------------------------------------------------ bounds
\* Longest tail of analytics rows drawn freely in Init.
MaxRows == 2

\* ------------------------------------------------------------ constants
\* gsc_df.nlargest(10, ...)
TopN == 10
\* ContentExtractor(max_retries=2)
max_retries == 2
\* range(1, 6) of the H2 columns
NumH2 == 5

\* ------------------------------------------------------------ values
StrVal(s) == [kind |-> "str", s |-> s, n |-> 0]
NaN == [kind |-> "nan", s |-> <<>>, n |-> 0]
NoneVal == [kind |-> "none", s |-> <<>>, n |-> 0]
IntVal(n) == [kind |-> "int", s |-> <<>>, n |-> n]

Min(a, b) == IF a < b THEN a ELSE b

\* str.lower() on one character.
lower(c) ==
    CASE c = "A" -> "a"
      [] c = "B" -> "b"
      [] c = "N" -> "n"
      [] OTHER -> c

isspace(c) == c = " "

\* str.strip(): drop leading and trailing whitespace.
RECURSIVE lstrip(_)
lstrip(s) ==
    IF s # <<>> /\ isspace(Head(s)) THEN lstrip(Tail(s)) ELSE s

RECURSIVE rstrip(_)
rstrip(s) ==
    IF s # <<>> /\ isspace(s[Len(s)]) THEN rstrip(SubSeq(s, 1, Len(s) - 1)) ELSE s

strip(s) == rstrip(lstrip(s))

\* ' '.join(text.split()): every whitespace run becomes one space, none at
\* the ends.
RECURSIVE join_split(_)
join_split(s) ==
    LET t == lstrip(s) IN
    IF t = <<>> THEN <<>>
    ELSE IF Len(t) > 1 /\ isspace(t[2])
         THEN IF lstrip(Tail(t)) = <<>> THEN <<t[1]>>
              ELSE <<t[1], " ">> \o join_split(Tail(t))
         ELSE <<t[1]>> \o join_split(Tail(t))

Digit(d) == <<"0", "1", "2", "3", "4", "5", "6", "7", "8", "9">>[d + 1]

RECURSIVE decimal(_)
decimal(n) == IF n < 10 THEN <<Digit(n)>> ELSE decimal(n \div 10) \o <<Digit(n % 10)>>

\* str(value): str(float('nan')) is 'nan', str(None) is 'None'.
str(v) ==
    CASE v.kind = "str" -> v.s
      [] v.kind = "nan" -> <<"n", "a", "n">>
      [] v.kind = "int" -> decimal(v.n)
      [] v.kind = "none" -> <<"N", "o", "n", "e">>

\* isinstance(text, (str, int, float)): NaN is a float.
is_scalar(v) == v.kind \in {"str", "int", "nan"}

clean_text(v) ==
    IF v.kind = "none" \/ ~is_scalar(v) THEN <<>>
    ELSE join_split([i \in 1..Len(strip(str(v))) |-> lower(strip(str(v))[i])])

\* Python's  q in t  on strings.
Contains(q, t) ==
    \E i \in 0..(Len(t) - Len(q)) : SubSeq(t, i + 1, i + Len(q)) = q

\* pd.notna(value)
notna(v) == v.kind \notin {"nan", "none"}

\* Truth value of a Python object that is a string or None.
truthy(v) == v.kind = "str" /\ v.s # <<>>

\* ------------------------------------------------------------ URLs
\* A URL string, held as the parts urlparse() splits it into.
URL(scheme, netloc, path) == [scheme |-> scheme, netloc |-> netloc, path |-> path]

urlparse(url) == [scheme |-> url.scheme, netloc |-> url.netloc]

\* Truth value of the URL string: false for the empty string only.
url_truthy(url) == url.scheme # "" \/ url.netloc # "" \/ url.path # ""

is_valid_url(url) ==
    LET result == urlparse(url) IN result.scheme # "" /\ result.netloc # ""

\* ------------------------------------------------------------ data frames
\* A data frame is a sequence of rows, a row a function from column names
\* to cells.
EmptyMap == [x \in {} |-> FALSE]

Column(df, c) == [i \in 1..Len(df) |-> df[i][c]]

\* Series.unique(): the distinct values in order of first appearance.
RECURSIVE unique_acc(_, _)
unique_acc(s, acc) ==
    IF s = <<>> THEN acc
    ELSE unique_acc(Tail(s),
            IF \E j \in 1..Len(acc) : acc[j] = Head(s) THEN acc ELSE Append(acc, Head(s)))

unique(s) == unique_acc(s, <<>>)

\* Composite sort key (Clicks, Impressions), compared column by column.
KeyGreater(a, b) ==
    \/ a["Clicks"] > b["Clicks"]
    \/ a["Clicks"] = b["Clicks"] /\ a["Impressions"] > b["Impressions"]

KeyEqual(a, b) ==
    a["Clicks"] = b["Clicks"] /\ a["Impressions"] = b["Impressions"]

\* Row j is placed before row i by a stable sort in descending key order.
Before(df, j, i) ==
    KeyGreater(df[j], df[i]) \/ (KeyEqual(df[j], df[i]) /\ j < i)

\* Mutant: the n rows of the smallest keys, ascending (nsmallest).
nsmallest(n, df) ==
    LET rank == [i \in 1..Len(df) |->
                    Cardinality({j \in 1..Len(df) :
                        \/ KeyGreater(df[i], df[j])
                        \/ KeyEqual(df[j], df[i]) /\ j < i})]
    IN [k \in 1..Min(n, Len(df)) |->
            df[CHOOSE i \in 1..Len(df) : rank[i] = k - 1]]

\* DataFrame.nlargest(n, ['Clicks', 'Impressions']), keep='first': the
\* first n rows of the frame sorted by the key, descending, ties in input
\* order.
nlargest(n, df) ==
    LET rank == [i \in 1..Len(df) |->
                    Cardinality({j \in 1..Len(df) : Before(df, j, i)})]
    IN [k \in 1..Min(n, Len(df)) |->
            df[CHOOSE i \in 1..Len(df) : rank[i] = k - 1]]

\* ------------------------------------------------------------ SEOScorecardAnalyzer
elements_to_check ==
    << <<"Title", "Title 1">>,
       <<"Meta Description", "Meta Description 1">>,
       <<"H1", "H1-1">> >>

h2_columns == [i \in 1..NumH2 |-> <<"H2-1", "H2-2", "H2-3", "H2-4", "H2-5">>[i]]

\* results[element_name] for the elements read from the crawl export.
main_elements(query, row) ==
    LET present == {k \in 1..Len(elements_to_check) :
                        elements_to_check[k][2] \in DOMAIN row}
        ColumnOf(name) ==
            elements_to_check[CHOOSE k \in present : elements_to_check[k][1] = name][2]
    IN [name \in {elements_to_check[k][1] : k \in present} |->
            LET text == clean_text(row[ColumnOf(name)])
            IN IF text # <<>> THEN Contains(query, text) ELSE FALSE]

\* results['H2s']
h2_element(query, row) ==
    \E i \in 1..NumH2 :
        /\ h2_columns[i] \in DOMAIN row
        /\ notna(row[h2_columns[i]])
        /\ clean_text(row[h2_columns[i]]) # <<>>
        /\ Contains(query, clean_text(row[h2_columns[i]]))

\* Mutant: the fallback body field is consulted before the resolved content.
content_element_fallback_first(query, row, scraped) ==
    LET url == row["Address"] IN
    IF "Post 1" \in DOMAIN row /\ notna(row["Post 1"])
    THEN Contains(query, clean_text(StrVal(str(row["Post 1"]))))
    ELSE IF /\ url_truthy(url)
            /\ DOMAIN scraped # {}
            /\ url \in DOMAIN scraped
            /\ truthy(scraped[url])
         THEN Contains(query, clean_text(scraped[url]))
         ELSE FALSE

\* results['Content']
content_element(query, row, scraped) ==
    LET url == row["Address"] IN
    IF /\ url_truthy(url)
       /\ DOMAIN scraped # {}
       /\ url \in DOMAIN scraped
       /\ truthy(scraped[url])
    THEN LET clean_content == clean_text(scraped[url])
         IN IF clean_content # <<>> THEN Contains(query, clean_content) ELSE FALSE
    ELSE IF "Post 1" \in DOMAIN row /\ notna(row["Post 1"])
         THEN Contains(query, clean_text(StrVal(str(row["Post 1"]))))
         ELSE FALSE

analyze_query_in_elements(raw_query, row, scraped) ==
    LET query == clean_text(raw_query) IN
    IF query = <<>> THEN EmptyMap
    ELSE main_elements(query, row)
            @@ ("H2s" :> h2_element(query, row))
            @@ ("Content" :> content_element(query, row, scraped))

\* gsc_df.nlargest(10, ['Clicks', 'Impressions'])['Query'].unique()
select_top_queries(df) == unique(Column(nlargest(TopN, df), "Query"))

\* Mutant: the landing pages of the selected queries without .unique().
select_urls_to_scrape_per_row(df, queries) ==
    LET isin(r) == \E k \in 1..Len(queries) : queries[k] = r["Query"]
    IN Column(SelectSeq(df, isin), "Landing Page")

\* gsc_df[gsc_df['Query'].isin(top_queries)]['Landing Page'].unique()
select_urls_to_scrape(df, queries) ==
    LET isin(r) == \E k \in 1..Len(queries) : queries[k] = r["Query"]
    IN unique(Column(SelectSeq(df, isin), "Landing Page"))

\* gsc_df[gsc_df['Query'] == query]['Landing Page'].unique()
select_query_urls(df, query) ==
    LET eq(r) == r["Query"] = query
    IN unique(Column(SelectSeq(df, eq), "Landing Page"))

\* sf_df[sf_df['Address'] == url]
matching_rows(df, url) ==
    LET eq(r) == r["Address"] = url IN SelectSeq(df, eq)

\* {'Query': query, 'URL': url, **element_checks}
result_row(query, url, element_checks) ==
    ("Query" :> query) @@ ("URL" :> url) @@ element_checks

\* ------------------------------------------------------------ metrics
\* An exact fraction stands for the float the code computes.
Frac(a, b) == [num |-> a, den |-> b]

FracAdd(x, y) == Frac(x.num * y.den + y.num * x.den, x.den * y.den)

FracEq(x, y) == x.num * y.den = y.num * x.den

FracLeq(x, y) == x.num * y.den <= y.num * x.den

elements == <<"Title", "Meta Description", "H1", "H2s", "Content">>

coverage_key ==
    <<"title_coverage", "meta description_coverage", "h1_coverage",
      "h2s_coverage", "content_coverage">>

\* results_df[element].mean() * 100: a row without the element holds NaN
\* in that column, and mean() skips NaN.
element_coverage(rows, element) ==
    LET have == {i \in 1..Len(rows) : element \in DOMAIN rows[i]}
        hits == {i \in have : rows[i][element]}
    IN Frac(100 * Cardinality(hits), Cardinality(have))

calculate_metrics(rows) ==
    IF rows = <<>> THEN EmptyMap
    ELSE
      LET in_df(k) == \E i \in 1..Len(rows) : elements[k] \in DOMAIN rows[i]
          coverages ==
              [key \in {coverage_key[k] : k \in {j \in 1..Len(elements) : in_df(j)}} |->
                  element_coverage(rows,
                      elements[CHOOSE k \in 1..Len(elements) : coverage_key[k] = key])]
          get(k) == IF coverage_key[k] \in DOMAIN coverages
                    THEN coverages[coverage_key[k]] ELSE Frac(0, 1)
          total[k \in 0..Len(elements)] ==
              IF k = 0 THEN Frac(0, 1) ELSE FracAdd(total[k - 1], get(k))
      IN ("total_queries" :> Cardinality({rows[i]["Query"] : i \in 1..Len(rows)}))
            @@ ("total_urls" :> Cardinality({rows[i]["URL"] : i \in 1..Len(rows)}))
            @@ coverages
            @@ ("overall_score" :>
                    Frac(total[Len(elements)].num, total[Len(elements)].den * Len(elements)))

\* ------------------------------------------------------------ inputs
QA == StrVal(<<"A", "n">>)
QB == StrVal(<<"b">>)
\* A blank query: its normalized form is empty.
QE == StrVal(<<" ">>)
Queries == {QA, QB, QE}

U1 == URL("https", "x.com", "/p")
U2 == URL("https", "x.com", "/q")
\* "x.com/r": urlparse finds neither scheme nor host.
UBad == URL("", "", "x.com/r")
URLs == {U1, U2, UBad}

Keys == {<<1, 2>>, <<2, 1>>}

GscRow(q, u, c, i) ==
    ("Query" :> q) @@ ("Landing Page" :> u) @@ ("Clicks" :> c) @@ ("Impressions" :> i)

GscRows == {GscRow(q, u, k[1], k[2]) : q \in Queries, u \in URLs, k \in Keys}

SmallTables == UNION {[1..n -> GscRows] : n \in 0..MaxRows}

\* One query reported many times over, for two landing pages.
HeadRow(i) == GscRow(QA, IF i % 2 = 1 THEN U1 ELSE U2, 1, 2)

WideTables ==
    {[i \in 1..k |-> HeadRow(i)] \o <<r>> : k \in {TopN - 1, TopN}, r \in GscRows}

SingleTables == {<<GscRow(q, U1, 1, 1)>> : q \in Queries}

Page(address, title, meta, h1, optional) ==
    ("Address" :> address) @@ ("Title 1" :> title)
        @@ ("Meta Description 1" :> meta) @@ ("H1-1" :> h1) @@ optional

H2Lists ==
    { <<NaN, NaN, NaN, NaN, NaN>>,
      <<NaN, StrVal(<<" ", "a", "N", " ">>), NaN, StrVal(<<>>), StrVal(<<"b">>)>>,
      <<StrVal(<<"n", " ", "a">>), NaN, NaN, NaN, NaN>> }

PostCells == {NaN, StrVal(<<"A", "n">>), IntVal(7)}

Optional(h2, post) ==
    [c \in {h2_columns[i] : i \in 1..NumH2} |->
        h2[CHOOSE i \in 1..NumH2 : h2_columns[i] = c]] @@ ("Post 1" :> post)

OptionalCells == {EmptyMap} \cup {Optional(h2, post) : h2 \in H2Lists, post \in PostCells}

TitleCells ==
    { NaN, StrVal(<<>>),
      StrVal(<<"a", " ", " ", "N", "b">>),
      StrVal(<<" ", "B", "A", "N", " ">>) }

MetaCells == {NaN, StrVal(<<"a", "N">>)}

H1Cells == {NaN, StrVal(<<"B">>)}

VariedTables ==
    {<<Page(U1, t, m, h, o)>> :
        t \in TitleCells, m \in MetaCells, h \in H1Cells, o \in OptionalCells}

FullOptional == Optional(<<NaN, StrVal(<<"b">>), NaN, NaN, NaN>>, StrVal(<<"A", "n">>))

BasicTables ==
    { <<>>,
      << Page(U1, StrVal(<<"B", "A", "N">>), NaN, StrVal(<<"B">>), FullOptional),
         Page(U1, StrVal(<<>>), NaN, NaN, FullOptional),
         Page(UBad, NaN, StrVal(<<"b">>), NaN, FullOptional) >>,
      << Page(U2, StrVal(<<"a", "n">>), StrVal(<<"b">>), NaN, EmptyMap) >> }

\* What trafilatura.extract() returns for a fetched page: None, or text.
Extractions == {NoneVal, StrVal(<<" ", "B", " ">>)}

\* ------------------------------------------------------------ state
VARIABLES
    gsc_df,           \* analytics export
    sf_df,            \* crawl export
    scrape_urls,      \* the live-resolution toggle
    pc,               \* position in generate_scorecard / calculate_metrics
    top_queries,
    urls_to_scrape,
    url_idx,          \* position of batch_extract in urls_to_scrape
    attempt,          \* loop variable of extract_from_url
    scraped_content,
    calls,            \* extract_from_url invocations per URL
    fetches,          \* requests.get calls per URL
    raises,           \* attempts per URL that ended in the except clause
    results,
    query_idx,        \* position of the outer loop in top_queries
    qurl_idx,         \* position of the inner loop in query_urls
    metrics

vars ==
    <<gsc_df, sf_df, scrape_urls, pc, top_queries, urls_to_scrape, url_idx,
      attempt, scraped_content, calls, fetches, raises, results, query_idx,
      qurl_idx, metrics>>

inputs == <<gsc_df, sf_df, scrape_urls>>
extractor == <<urls_to_scrape, url_idx, attempt, scraped_content, calls, fetches, raises>>
loops == <<results, query_idx, qurl_idx>>

Init ==
    /\ \/ gsc_df \in SmallTables /\ sf_df \in BasicTables
       \/ gsc_df \in WideTables /\ sf_df \in BasicTables \ {<<>>}
       \/ gsc_df \in SingleTables /\ sf_df \in VariedTables
    /\ scrape_urls \in BOOLEAN
    /\ pc = "start"
    /\ top_queries = <<>>
    /\ urls_to_scrape = <<>>
    /\ url_idx = 1
    /\ attempt = 0
    /\ scraped_content = EmptyMap
    /\ calls = [u \in URLs |-> 0]
    /\ fetches = [u \in URLs |-> 0]
    /\ raises = [u \in URLs |-> 0]
    /\ results = <<>>
    /\ query_idx = 1
    /\ qurl_idx = 1
    /\ metrics = EmptyMap

\* ------------------------------------------------------------ ContentExtractor
\* What requests.get / raise_for_status raise: network error, timeout,
\* non-success status.
Exceptions == {"ConnectionError", "Timeout", "HTTPError"}

\* Mutant: an except clause that names the network error alone.
caught_connection_only(e) == e = "ConnectionError"

\* except Exception as e: every exception of the try block is caught.
caught(e) == TRUE

\* Mutant: the except clause gives up one iteration late.
gives_up_late(n) == n = max_retries + 1

\* The except clause: give up after the last iteration of
\* range(max_retries + 1), otherwise sleep and try again.
gives_up(n) == n = max_retries

\* content.strip() if content else None
extracted(content) ==
    IF truthy(content) THEN StrVal(strip(content.s)) ELSE NoneVal

Put(m, k, v) == [x \in DOMAIN m \cup {k} |-> IF x = k THEN v ELSE m[x]]

Inc(f, k) == [f EXCEPT ![k] = @ + 1]

current_url == urls_to_scrape[url_idx]

\* extract_from_url(url) on a URL without scheme or host: None, no request.
ExtractInvalid ==
    /\ pc = "batch"
    /\ url_idx <= Len(urls_to_scrape)
    /\ ~is_valid_url(current_url)
    /\ calls' = Inc(calls, current_url)
    /\ scraped_content' = Put(scraped_content, current_url, NoneVal)
    /\ url_idx' = url_idx + 1
    /\ UNCHANGED <<inputs, pc, top_queries, urls_to_scrape, attempt, fetches,
                   raises, loops, metrics>>

\* extract_from_url(url) on a valid URL enters the retry loop.
ExtractBegin ==
    /\ pc = "batch"
    /\ url_idx <= Len(urls_to_scrape)
    /\ is_valid_url(current_url)
    /\ calls' = Inc(calls, current_url)
    /\ attempt' = 0
    /\ pc' = "fetch"
    /\ UNCHANGED <<inputs, top_queries, urls_to_scrape, url_idx, scraped_content,
                   fetches, raises, loops, metrics>>

\* Mutant: an empty extraction is retried like a failed request.
FetchReturns_retry_empty ==
    /\ pc = "fetch"
    /\ fetches' = Inc(fetches, urls_to_scrape[url_idx])
    /\ \E content \in Extractions :
          IF truthy(content) \/ attempt = max_retries
          THEN /\ scraped_content' =
                    Put(scraped_content, urls_to_scrape[url_idx], extracted(content))
               /\ url_idx' = url_idx + 1
               /\ pc' = "batch"
               /\ UNCHANGED attempt
          ELSE /\ attempt' = attempt + 1
               /\ UNCHANGED <<pc, url_idx, scraped_content>>
    /\ UNCHANGED <<inputs, top_queries, urls_to_scrape, calls, raises, loops, metrics>>

\* One iteration whose request succeeds: the extraction is returned,
\* whatever it is.
FetchReturns ==
    /\ pc = "fetch"
    /\ \E content \in Extractions :
          scraped_content' = Put(scraped_content, current_url, extracted(content))
    /\ fetches' = Inc(fetches, current_url)
    /\ url_idx' = url_idx + 1
    /\ pc' = "batch"
    /\ UNCHANGED <<inputs, top_queries, urls_to_scrape, attempt, calls, raises,
                   loops, metrics>>

\* One iteration whose request raises.
FetchRaises ==
    /\ pc = "fetch"
    /\ fetches' = Inc(fetches, current_url)
    /\ raises' = Inc(raises, current_url)
    /\ \E e \in Exceptions :
          IF ~caught(e)
          THEN /\ pc' = "error"
               /\ UNCHANGED <<attempt, url_idx, scraped_content>>
          ELSE IF gives_up(attempt)
          THEN /\ scraped_content' = Put(scraped_content, current_url, NoneVal)
               /\ url_idx' = url_idx + 1
               /\ pc' = "batch"
               /\ UNCHANGED attempt
          ELSE /\ attempt' = attempt + 1
               /\ UNCHANGED <<pc, url_idx, scraped_content>>
    /\ UNCHANGED <<inputs, top_queries, urls_to_scrape, calls, loops, metrics>>

\* batch_extract returns the dict to generate_scorecard.
BatchReturns ==
    /\ pc = "batch"
    /\ url_idx > Len(urls_to_scrape)
    /\ pc' = "rows"
    /\ UNCHANGED <<inputs, top_queries, extractor, loops, metrics>>

\* ------------------------------------------------------------ generate_scorecard
\* if gsc_df.empty or sf_df.empty: return pd.DataFrame()
ReturnEmpty ==
    /\ pc = "start"
    /\ gsc_df = <<>> \/ sf_df = <<>>
    /\ pc' = "metrics"
    /\ UNCHANGED <<inputs, top_queries, extractor, loops, metrics>>

\* Query selection and, with scraping on, the list of URLs to resolve.
\* app.py always constructs the analyzer with a ContentExtractor.
SelectQueries ==
    /\ pc = "start"
    /\ gsc_df # <<>> /\ sf_df # <<>>
    /\ top_queries' = select_top_queries(gsc_df)
    /\ IF scrape_urls
       THEN /\ urls_to_scrape' = select_urls_to_scrape(gsc_df, top_queries')
            /\ pc' = "batch"
       ELSE /\ pc' = "rows"
            /\ UNCHANGED urls_to_scrape
    /\ UNCHANGED <<inputs, url_idx, attempt, scraped_content, calls, fetches,
                   raises, loops, metrics>>

current_query == top_queries[query_idx]

query_urls == select_query_urls(gsc_df, current_query)

\* The loop indices after the pair (query_idx, qurl_idx).
Advance ==
    IF qurl_idx < Len(query_urls)
    THEN /\ qurl_idx' = qurl_idx + 1
         /\ UNCHANGED query_idx
    ELSE /\ qurl_idx' = 1
         /\ query_idx' = query_idx + 1

\* One pair whose URL is an Address of the crawl export: a row is appended.
EmitRow ==
    /\ pc = "rows"
    /\ query_idx <= Len(top_queries)
    /\ LET url == query_urls[qurl_idx]
           rows == matching_rows(sf_df, url)
       IN /\ rows # <<>>
          /\ results' = Append(results,
                result_row(current_query, url,
                    analyze_query_in_elements(current_query, rows[1], scraped_content)))
    /\ Advance
    /\ UNCHANGED <<inputs, pc, top_queries, extractor, metrics>>

\* One pair whose URL is no Address of the crawl export.
SkipPair ==
    /\ pc = "rows"
    /\ query_idx <= Len(top_queries)
    /\ matching_rows(sf_df, query_urls[qurl_idx]) = <<>>
    /\ Advance
    /\ UNCHANGED <<inputs, pc, top_queries, extractor, results, metrics>>

\* return pd.DataFrame(results)
ReturnRows ==
    /\ pc = "rows"
    /\ query_idx > Len(top_queries)
    /\ pc' = "metrics"
    /\ UNCHANGED <<inputs, top_queries, extractor, loops, metrics>>

\* app.py: metrics = seo_analyzer.calculate_metrics(results_df)
CalculateMetrics ==
    /\ pc = "metrics"
    /\ metrics' = calculate_metrics(results)
    /\ pc' = "done"
    /\ UNCHANGED <<inputs, top_queries, extractor, loops>>

Next ==
    \/ ReturnEmpty
    \/ SelectQueries
    \/ ExtractInvalid
    \/ ExtractBegin
    \/ FetchReturns
    \/ FetchRaises
    \/ BatchReturns
    \/ EmitRow
    \/ SkipPair
    \/ ReturnRows
    \/ CalculateMetrics

Spec == Init /\ [][Next]_vars

\* ------------------------------------------------------------ properties
Fields == {elements[k] : k \in 1..Len(elements)}

Range(s) == {s[i] : i \in 1..Len(s)}

\* generate_scorecard went past its empty-input return.
Selected == pc \notin {"start", "error"} /\ gsc_df # <<>> /\ sf_df # <<>>

\* The loops over the pairs are done.
Finished == pc \in {"metrics", "done"}

\* The page record a row was matched against.
PageOf(url) == matching_rows(sf_df, url)[1]

\* C1: the number of distinct queries selected equals min(10, number of
\* distinct query strings in the analytics input).
C1_DedupBeforeTruncate ==
    Selected =>
        Cardinality(Range(top_queries))
            = Min(TopN, Cardinality({gsc_df[i]["Query"] : i \in 1..Len(gsc_df)}))

\* C2: every emitted row carries exactly the five field names, and no row
\* is emitted for a query whose normalized form is empty.
C2_FiveFields ==
    \A i \in 1..Len(results) :
        /\ DOMAIN results[i] = {"Query", "URL"} \cup Fields
        /\ clean_text(results[i]["Query"]) # <<>>

\* A cell that is absent (NaN, None) or the empty string.
MissingOrEmpty(cell) == cell.kind \in {"nan", "none"} \/ cell = StrVal(<<>>)

\* C3: for a non-empty normalized query, Title, Meta Description and H1 are
\* false whenever the page record's cell for the field is missing or empty.
C3_MissingFieldFalse ==
    \A i \in 1..Len(results) :
        clean_text(results[i]["Query"]) # <<>> =>
            \A k \in 1..Len(elements_to_check) :
                MissingOrEmpty(PageOf(results[i]["URL"])[elements_to_check[k][2]])
                    => results[i][elements_to_check[k][1]] = FALSE

\* The content map holds non-empty resolved content for the URL.
HasLive(url) == url \in DOMAIN scraped_content /\ truthy(scraped_content[url])

\* What the fallback body field alone decides.
FallbackMatch(q, page) ==
    /\ "Post 1" \in DOMAIN page
    /\ page["Post 1"].kind \notin {"nan", "none"}
    /\ Contains(q, clean_text(StrVal(str(page["Post 1"]))))

\* C4: with a non-empty normalized query, Content is the match against the
\* resolved content whenever the content map holds non-empty content for
\* the URL, whatever Post 1 holds; otherwise it is the match against
\* Post 1, and false when neither is available.
C4_ContentPrecedence ==
    \A i \in 1..Len(results) :
        LET q == clean_text(results[i]["Query"])
            url == results[i]["URL"]
        IN q # <<>> =>
            results[i]["Content"] =
                IF HasLive(url)
                THEN Contains(q, clean_text(scraped_content[url]))
                ELSE FallbackMatch(q, PageOf(url))

\* Live content without the query wins over a fallback body with it, and
\* live content with the query wins over a fallback body without it.
C4_Witness ==
    /\ pc = "done"
    /\ \E i \in 1..Len(results) :
          LET q == clean_text(results[i]["Query"])
              url == results[i]["URL"]
          IN /\ q # <<>>
             /\ HasLive(url)
             /\ FallbackMatch(q, PageOf(url))
             /\ results[i]["Content"] = FALSE
    /\ \E i \in 1..Len(results) :
          LET q == clean_text(results[i]["Query"])
              url == results[i]["URL"]
          IN /\ q # <<>>
             /\ HasLive(url)
             /\ ~FallbackMatch(q, PageOf(url))
             /\ results[i]["Content"] = TRUE

\* C5 as claimed: at most 2 fetch attempts are made for a URL.
C5_AtMostTwoAttempts == \A u \in URLs : fetches[u] <= 2

\* C5 as amended: at most max_retries + 1 = 3 fetch attempts are made for
\* a URL (one attempt and at most two retries), also when every attempt
\* fails.
C5_AtMostThreeAttempts == \A u \in URLs : fetches[u] <= max_retries + 1

C5_Witness ==
    \E u \in URLs :
        /\ fetches[u] = 3 /\ raises[u] = 3
        /\ u \in DOMAIN scraped_content /\ scraped_content[u] = NoneVal

\* Every attempt made for the URL failed, or none could be made.
FailedURL(u) ==
    /\ u \in DOMAIN scraped_content
    /\ scraped_content[u] = NoneVal
    /\ raises[u] = fetches[u]

\* C6: a URL whose every attempt fails does not stop the batch (every URL
\* of the batch is resolved), no error reaches the caller, and Content of
\* the rows of the failed URL is what the fallback body field decides.
C6_FailuresAbsorbed ==
    /\ pc # "error"
    /\ pc \in {"rows", "metrics", "done"} =>
          \A u \in Range(urls_to_scrape) :
              u \in DOMAIN scraped_content /\ calls[u] >= 1
    /\ \A i \in 1..Len(results) :
          LET q == clean_text(results[i]["Query"])
              url == results[i]["URL"]
          IN q # <<>> /\ FailedURL(url) =>
                results[i]["Content"] = FallbackMatch(q, PageOf(url))

C6_Witness ==
    /\ pc = "done"
    /\ \E u \in URLs, v \in URLs :
          /\ FailedURL(u) /\ fetches[u] = max_retries + 1
          /\ HasLive(v)
          /\ \E k, m \in 1..Len(urls_to_scrape) :
                k < m /\ urls_to_scrape[k] = u /\ urls_to_scrape[m] = v
          /\ \E i \in 1..Len(results) :
                /\ results[i]["URL"] = u
                /\ "Content" \in DOMAIN results[i]
                /\ results[i]["Content"] = TRUE

\* A landing page of some row of a selected query.
Associated(u) ==
    \E i \in 1..Len(gsc_df) :
        gsc_df[i]["Landing Page"] = u /\ gsc_df[i]["Query"] \in Range(top_queries)

\* C7: with live resolution on, extract_from_url is invoked exactly once
\* for each distinct landing page of the selected queries and for no other
\* URL; with live resolution off it is never invoked.
C7_ResolvedOnce ==
    /\ \A u \in URLs : calls[u] <= 1
    /\ ~scrape_urls => \A u \in URLs : calls[u] = 0 /\ fetches[u] = 0
    /\ scrape_urls /\ pc \in {"rows", "metrics", "done"} =>
          \A u \in URLs : calls[u] = IF Associated(u) THEN 1 ELSE 0

C7_Witness ==
    /\ pc = "done"
    /\ scrape_urls
    /\ \E i, j \in 1..Len(results) :
          /\ results[i]["URL"] = results[j]["URL"]
          /\ results[i]["Query"] # results[j]["Query"]
          /\ calls[results[i]["URL"]] = 1
    /\ \E u \in URLs : Associated(u) /\ calls[u] = 1 /\ matching_rows(sf_df, u) = <<>>

\* The number of rows in which the field is true.
TrueRows(field) ==
    Cardinality({i \in 1..Len(results) :
                    field \in DOMAIN results[i] /\ results[i][field]})

\* C8: for a non-empty result, each field's coverage is 100 times the
\* number of rows where the field is true divided by the number of rows,
\* lies in [0, 100], and overall_score is the sum of the five divided by 5.
C8_CoverageIsShareOfRows ==
    pc = "done" /\ results # <<>> =>
        /\ \A k \in 1..Len(elements) :
              /\ coverage_key[k] \in DOMAIN metrics
              /\ FracEq(metrics[coverage_key[k]],
                        Frac(100 * TrueRows(elements[k]), Len(results)))
              /\ FracLeq(Frac(0, 1), metrics[coverage_key[k]])
              /\ FracLeq(metrics[coverage_key[k]], Frac(100, 1))
        /\ FracEq(metrics["overall_score"],
                  Frac(100 * (TrueRows("Title") + TrueRows("Meta Description")
                                + TrueRows("H1") + TrueRows("H2s") + TrueRows("Content")),
                       5 * Len(results)))

\* The first row of the query in rank order.
BestIdx(q) ==
    CHOOSE i \in 1..Len(gsc_df) :
        /\ gsc_df[i]["Query"] = q
        /\ \A j \in 1..Len(gsc_df) :
              gsc_df[j]["Query"] = q /\ j # i => Before(gsc_df, i, j)

\* The first row of the (query, URL) pair in the input.
FirstIdx(q, u) ==
    CHOOSE i \in 1..Len(gsc_df) :
        /\ gsc_df[i]["Query"] = q /\ gsc_df[i]["Landing Page"] = u
        /\ \A j \in 1..(i - 1) :
              ~(gsc_df[j]["Query"] = q /\ gsc_df[j]["Landing Page"] = u)

\* The (query, URL) pairs of the input whose query is selected and whose
\* URL is an Address of the crawl export.
KeptPairs ==
    {<<gsc_df[i]["Query"], gsc_df[i]["Landing Page"]>> : i \in
        {j \in 1..Len(gsc_df) :
            /\ gsc_df[j]["Query"] \in Range(top_queries)
            /\ \E k \in 1..Len(sf_df) : sf_df[k]["Address"] = gsc_df[j]["Landing Page"]}}

\* Pair a comes before pair b: its query ranks higher, or it is the same
\* query and its URL is seen first.
PairBefore(a, b) ==
    IF a[1] = b[1]
    THEN FirstIdx(a[1], a[2]) < FirstIdx(b[1], b[2])
    ELSE Before(gsc_df, BestIdx(a[1]), BestIdx(b[1]))

\* C9: the output rows are exactly the kept (query, URL) pairs, one row
\* each, the queries in rank order (clicks, then impressions, descending,
\* ties in input order) and the URLs of a query in first-seen order.
C9_RowOrder ==
    Finished =>
        /\ {<<results[i]["Query"], results[i]["URL"]>> : i \in 1..Len(results)} = KeptPairs
        /\ \A i, j \in 1..Len(results) :
              i < j => PairBefore(<<results[i]["Query"], results[i]["URL"]>>,
                                  <<results[j]["Query"], results[j]["URL"]>>)
        /\ \A i, j \in 1..Len(top_queries) :
              i < j => Before(gsc_df, BestIdx(top_queries[i]), BestIdx(top_queries[j]))

\* Two queries emitted in rank order, opposite to their input order, and a
\* pair of a selected query dropped for want of a page record.
C9_Witness ==
    /\ pc = "done"
    /\ Len(results) >= 2
    /\ \E i \in 1..(Len(results) - 1) :
          /\ results[i]["Query"] # results[i + 1]["Query"]
          /\ BestIdx(results[i]["Query"]) > BestIdx(results[i + 1]["Query"])
    /\ \E i \in 1..Len(gsc_df) :
          /\ gsc_df[i]["Query"] \in Range(top_queries)
          /\ matching_rows(sf_df, gsc_df[i]["Landing Page"]) = <<>>

\* C10: an attempt after the first is made only when every earlier attempt
\* raised; a successful request ends the resolution at once, also when the
\* extraction is empty (no content, no retry); a URL without scheme or host
\* is resolved to no content with no request at all.
C10_RetryOnlyAfterRaise ==
    \A u \in URLs :
        /\ fetches[u] <= raises[u] + 1
        /\ fetches[u] > raises[u] => u \in DOMAIN scraped_content
        /\ pc = "fetch" /\ current_url = u => fetches[u] = raises[u]
        /\ ~is_valid_url(u) => fetches[u] = 0
        /\ ~is_valid_url(u) /\ u \in DOMAIN scraped_content =>
              scraped_content[u] = NoneVal

C10_Witness ==
    /\ pc = "done"
    /\ \E u \in URLs :
          /\ fetches[u] = 1 /\ raises[u] = 0
          /\ u \in DOMAIN scraped_content /\ scraped_content[u] = NoneVal
    /\ \E u \in URLs :
          /\ ~is_valid_url(u) /\ calls[u] = 1 /\ fetches[u] = 0
          /\ u \in DOMAIN scraped_content

====
